---- MODULE Spec2Model ----
(***************************************************************************)
(* Model of the pr-screenshots helper scripts (pr_assets.py,               *)
(* imgbb_upload.py, imgur_upload.py).                                      *)
(*                                                                         *)
(* Text is a sequence of tokens.  Every token is one character, except the *)
(* tokens "Screenshots" and "screenshots", which stand for that word in    *)
(* the two spellings the model uses (the pattern is case-insensitive).     *)
(* "x", "n" and "u" are letters; "\\" is one backslash.                    *)
(***************************************************************************)
EXTENDS Integers, Sequences, FiniteSets, TLC

VARIABLES
    pc,             \* position of the running script
    document,       \* update_pr: result.stdout of `gh pr view`
    entries,        \* update_pr: the (label, url) pairs of --entry
    new_section,    \* update_pr: the rendered section
    new_body,       \* update_pr: the body handed to `gh pr edit`
    round,          \* update_pr: how many merges have been applied
    script,         \* upload: "imgbb" (imgbb_upload.py) or "imgur" (imgur_upload.py)
    ext,            \* upload: Path(filepath).suffix of the image
    files,          \* upload: size of each file of this call that exists
    stageA,         \* upload: what the first sips run of this call did
    stageB,         \* upload: what the second sips run of this call did
    sipsCalls,      \* upload: the sips invocations of this call, in order
    warnings,       \* upload: the warnings of this call on stderr, in order
    compressed_path, \* upload: what compress_image returned
    exitCode,       \* upload: exit status of the call (-1 while it runs)
    calls,          \* upload: calls of the script started so far
    leaked,         \* upload: temporary files earlier calls left on disk
    mode,           \* pr_assets: "setup" (--setup) or "upload" (a file path)
    objects,        \* repository: its git objects, the sha of one is its index
    ref,            \* repository: the commit of refs/heads/pr-assets, 0 = absent
    contents,       \* repository: files written on pr-assets by the contents API
    before,         \* pr_assets: what ref was when this call started
    blob_sha,       \* create_pr_assets_branch: blob["sha"], 0 = not set
    tree_sha,       \* create_pr_assets_branch: tree["sha"], 0 = not set
    commit_sha,     \* create_pr_assets_branch: commit["sha"], 0 = not set
    apiLog,         \* pr_assets: the gh invocations of this call, in order
    stdout,         \* pr_assets: what this call printed on stdout, in order
    stderr,         \* pr_assets: what this call printed on stderr, in order
    status,         \* pr_assets: exit status of the call (-1 while it runs)
    runs,           \* pr_assets: the calls that have ended, in order
    prBody,         \* the pull request: its description on the remote
    edits,          \* the pull request: edits other writers have made so far
    overwritten     \* update_pr: the description `gh pr edit` replaced

mergeVars == <<document, entries, new_section, new_body, round>>

uploadVars == <<script, ext, files, stageA, stageB, sipsCalls, warnings,
                compressed_path, exitCode, calls, leaked>>

assetsVars == <<mode, objects, ref, contents, before, blob_sha, tree_sha,
                commit_sha, apiLog, stdout, stderr, status, runs>>

prVars == <<prBody, edits, overwritten>>

vars == <<pc, mergeVars, uploadVars, assetsVars, prVars>>

-----------------------------------------------------------------------------
(* Bounds of the model.                                                    *)

MaxPieces == 4

MaxEntries == 2

MaxRounds == 2

\* sizes reach from one byte under the ceiling to MaxOver bytes over it
MaxOver == 2

MaxCalls == 2

-----------------------------------------------------------------------------
(* Text helpers.                                                           *)

NL == "\n"

BS == "\\"

\* Python's \s on the model's alphabet.
IsSpace(c) == c \in {" ", NL}

\* Python's \w on the model's alphabet.
IsWord(c) == c \in {"x", "n", "u", "Screenshots", "screenshots"}

\* The literal `screenshots` under re.IGNORECASE.
IsScreenshots(c) == c \in {"Screenshots", "screenshots"}

RECURSIVE Flatten(_)
Flatten(ss) == IF ss = <<>> THEN <<>> ELSE Head(ss) \o Flatten(Tail(ss))

\* "\n".join(lines)
RECURSIVE JoinLines(_)
JoinLines(lines) ==
    IF lines = <<>> THEN <<>>
    ELSE IF Len(lines) = 1 THEN lines[1]
    ELSE lines[1] \o <<NL>> \o JoinLines(Tail(lines))

\* str.rstrip("\n")
RECURSIVE RstripNL(_)
RstripNL(s) ==
    IF s # <<>> /\ s[Len(s)] = NL THEN RstripNL(SubSeq(s, 1, Len(s) - 1)) ELSE s

\* str.rstrip(): all trailing whitespace
RECURSIVE RstripWS(_)
RstripWS(s) ==
    IF s # <<>> /\ IsSpace(s[Len(s)]) THEN RstripWS(SubSeq(s, 1, Len(s) - 1)) ELSE s

EndsWith(s, t) ==
    Len(s) >= Len(t) /\ SubSeq(s, Len(s) - Len(t) + 1, Len(s)) = t

IsPrefix(p, s) == Len(p) <= Len(s) /\ SubSeq(s, 1, Len(p)) = p

-----------------------------------------------------------------------------
(* build_screenshots_section                                               *)

RECURSIVE EntryLines(_)
EntryLines(E) ==
    IF E = <<>> THEN <<>>
    ELSE << <<"#", "#", "#", " ">> \o E[1][1],
            <<"!", "[">> \o E[1][1] \o <<"]", "(">> \o E[1][2] \o <<")">>,
            <<>> >> \o EntryLines(Tail(E))

\* a rendering that keeps the blank line after the last entry
BuildKeepsBlankLine(E) ==
    JoinLines(<< <<"#", "#", " ", "Screenshots">>, <<>> >> \o EntryLines(E)) \o <<NL>>

build_screenshots_section(E) ==
    RstripWS(JoinLines(<< <<"#", "#", " ", "Screenshots">>, <<>> >> \o EntryLines(E)))
        \o <<NL>>

-----------------------------------------------------------------------------
(* SCREENSHOTS_PATTERN = (?im)^##\s+screenshots\b.*?(?=\n##\s|\Z), DOTALL  *)

\* ^ under re.MULTILINE
LineStart(s, i) == i = 1 \/ s[i - 1] = NL

\* the position of `screenshots` when ^##\s+screenshots\b matches at i, else 0
HeadingWord(s, i) ==
    IF /\ i + 3 <= Len(s)
       /\ LineStart(s, i)
       /\ s[i] = "#"
       /\ s[i + 1] = "#"
       /\ \E j \in (i + 3)..Len(s) :
            /\ \A k \in (i + 2)..(j - 1) : IsSpace(s[k])
            /\ IsScreenshots(s[j])
            /\ (j = Len(s) \/ ~IsWord(s[j + 1]))
    THEN CHOOSE j \in (i + 3)..Len(s) :
            /\ \A k \in (i + 2)..(j - 1) : IsSpace(s[k])
            /\ IsScreenshots(s[j])
    ELSE 0

\* (?=\n##\s|\Z) just after position e
Lookahead(s, e) ==
    \/ e = Len(s)
    \/ /\ e + 4 <= Len(s)
       /\ s[e + 1] = NL
       /\ s[e + 2] = "#"
       /\ s[e + 3] = "#"
       /\ IsSpace(s[e + 4])

\* the last position of the match that starts at i (0: no match at i);
\* .*? is lazy, so the match ends at the first position the lookahead allows
MatchEnd(s, i) ==
    LET j == HeadingWord(s, i) IN
    IF j = 0 THEN 0
    ELSE CHOOSE e \in j..Len(s) :
            Lookahead(s, e) /\ \A f \in j..(e - 1) : ~Lookahead(s, f)

\* the start of the leftmost match at or after `from` (0: none)
NextMatch(s, from) ==
    IF \E i \in from..Len(s) : MatchEnd(s, i) # 0
    THEN CHOOSE i \in from..Len(s) :
            MatchEnd(s, i) # 0 /\ \A h \in from..(i - 1) : MatchEnd(s, h) = 0
    ELSE 0

\* SCREENSHOTS_PATTERN.search(s)
PatternSearch(s) == NextMatch(s, 1) # 0

\* re's handling of a replacement string: "\n" is a newline, "\\" one
\* backslash, a backslash before another ASCII letter (or at the end) is an
\* error, a backslash before anything else stays.
EscapeOut(c) ==
    IF c = "n" THEN <<NL>> ELSE IF c = BS THEN <<BS>> ELSE <<BS, c>>

RECURSIVE ExpandTemplate(_)
ExpandTemplate(t) ==
    IF \A i \in 1..Len(t) : t[i] # BS THEN [err |-> FALSE, out |-> t]
    ELSE
        LET k == CHOOSE i \in 1..Len(t) : t[i] = BS /\ \A h \in 1..(i - 1) : t[h] # BS
        IN  IF k = Len(t) \/ (IsWord(t[k + 1]) /\ t[k + 1] # "n")
            THEN [err |-> TRUE, out |-> <<>>]
            ELSE LET r == ExpandTemplate(SubSeq(t, k + 2, Len(t))) IN
                 [err |-> r.err,
                  out |-> IF r.err THEN <<>>
                          ELSE SubSeq(t, 1, k - 1) \o EscapeOut(t[k + 1]) \o r.out]

\* every non-overlapping match of s at or after `from` replaced by r
RECURSIVE ReplaceFrom(_, _, _)
ReplaceFrom(s, r, from) ==
    LET i == NextMatch(s, from) IN
    IF i = 0 THEN SubSeq(s, from, Len(s))
    ELSE SubSeq(s, from, i - 1) \o r \o ReplaceFrom(s, r, MatchEnd(s, i) + 1)

\* SCREENSHOTS_PATTERN.sub(repl, s)
PatternSub(repl, s) ==
    LET t == ExpandTemplate(repl) IN
    IF t.err THEN [err |-> TRUE, out |-> <<>>]
    ELSE [err |-> FALSE, out |-> ReplaceFrom(s, t.out, 1)]

-----------------------------------------------------------------------------
(* update_pr, from result.stdout to new_body                               *)

\* a separator that forgets the empty document
SeparatorAlways(current_body) == <<NL, NL>>

Separator(current_body) ==
    IF current_body # <<>> /\ ~EndsWith(current_body, <<NL, NL>>)
    THEN <<NL, NL>> ELSE <<>>

Merge(d, E) ==
    LET current_body == RstripNL(d)
        section      == build_screenshots_section(E)
    IN  IF PatternSearch(current_body)
        THEN PatternSub(RstripNL(section), current_body)
        ELSE [err |-> FALSE, out |-> current_body \o Separator(current_body) \o section]

-----------------------------------------------------------------------------
(* imgbb_upload.py and imgur_upload.py: compress_image and upload_image    *)

\* MAX_SIZE_BYTES of each script
MAX_SIZE_BYTES(s) == IF s = "imgbb" THEN 32 * 1024 * 1024 ELSE 10 * 1024 * 1024

SUPPORTED_EXTENSIONS == {".jpg", ".jpeg", ".png", ".gif", ".bmp", ".webp"}

\* the suffixes the model draws from
Exts == {".gif", ".GIF", ".jpg", ".tiff"}

\* str.lower() on the suffixes of the model
Lower(e) == IF e = ".GIF" THEN ".gif" ELSE e

\* sizes of the image handed to the script
InSizes(s) == (MAX_SIZE_BYTES(s) - 1)..(MAX_SIZE_BYTES(s) + MaxOver)

\* sizes of a file sips wrote
OutSizes(s) == (MAX_SIZE_BYTES(s) - 1)..(MAX_SIZE_BYTES(s) + MaxOver)

NotRun == [ran |-> FALSE, returncode |-> 0, output |-> "none"]

\* what one sips run can do to the empty file NamedTemporaryFile created for
\* it: fail, end with status 0 and leave the file empty ("none"), end with
\* status 0 having removed the file, or write it
SipsResults ==
    { [ran |-> TRUE, returncode |-> 1, output |-> "none"],
      [ran |-> TRUE, returncode |-> 0, output |-> "none"],
      [ran |-> TRUE, returncode |-> 0, output |-> "removed"],
      [ran |-> TRUE, returncode |-> 0, output |-> "written"] }

\* the file system after a sips run with result r on the new file `out`
AfterSips(fs, out, r, size) ==
    IF r.output = "removed" THEN fs
    ELSE [n \in DOMAIN fs \cup {out} |->
            IF n # out THEN fs[n]
            ELSE IF r.output = "written" THEN size ELSE 0]

\* result.returncode != 0 or not os.path.exists(tmp_path)
SipsFailed(r, fs, out) == r.returncode # 0 \/ out \notin DOMAIN fs

\* a size check that sends a file of exactly the ceiling to compression
NeedsCompressionAtCeiling(size, max) == size >= max

\* not (size <= MAX_SIZE_BYTES)
NeedsCompression(size, max) == size > max

\* a suffix test that forgets .lower()
IsGifCaseSensitive(e) == e = ".gif"

\* ext == ".gif", ext being Path(filepath).suffix.lower()
IsGif(e) == Lower(e) = ".gif"

\* a resize that reads the original image
StageBInputOriginal == "filepath"

\* the input of the second sips run
StageBInput == "tmp1"

\* if final_size > MAX_SIZE_BYTES: print("Warning: image is still ...")
FinalWarning(final_size, max) ==
    IF final_size > max THEN <<"still_too_large">> ELSE <<>>

\* a failed resize that falls back to the original image
StageBFallbackOriginal == "filepath"

\* what compress_image returns when the resize failed
StageBFallback == "tmp1"

UploadIdle ==
    /\ script = "none"
    /\ ext = ""
    /\ files = <<>>
    /\ stageA = NotRun
    /\ stageB = NotRun
    /\ sipsCalls = <<>>
    /\ warnings = <<>>
    /\ compressed_path = ""
    /\ exitCode = -1
    /\ calls = 0
    /\ leaked = 0

MergeIdle ==
    /\ document = <<>>
    /\ entries = <<>>
    /\ new_section = <<>>
    /\ new_body = <<>>
    /\ round = 0

AssetsIdle ==
    /\ mode = "none"
    /\ objects = <<>>
    /\ ref = 0
    /\ contents = 0
    /\ before = 0
    /\ blob_sha = 0
    /\ tree_sha = 0
    /\ commit_sha = 0
    /\ apiLog = <<>>
    /\ stdout = <<>>
    /\ stderr = <<>>
    /\ status = -1
    /\ runs = <<>>

PrIdle ==
    /\ prBody = <<>>
    /\ edits = 0
    /\ overwritten = <<>>

\* main has checked that the file exists and that a key is configured
InitUpload ==
    /\ pc = "upload_image"
    /\ script \in {"imgbb", "imgur"}
    /\ ext \in Exts
    /\ \E size \in InSizes(script) : files = [n \in {"filepath"} |-> size]
    /\ stageA = NotRun
    /\ stageB = NotRun
    /\ sipsCalls = <<>>
    /\ warnings = <<>>
    /\ compressed_path = ""
    /\ exitCode = -1
    /\ calls = 1
    /\ leaked = 0
    /\ MergeIdle
    /\ AssetsIdle
    /\ PrIdle

\* upload_image up to its call of compress_image
UploadImageEnter ==
    /\ pc = "upload_image"
    /\ pc' = "compress_image"
    /\ warnings' = IF script = "imgbb" /\ Lower(ext) \notin SUPPORTED_EXTENSIONS
                   THEN Append(warnings, "unsupported_ext") ELSE warnings
    /\ UNCHANGED <<script, ext, files, stageA, stageB, sipsCalls,
                   compressed_path, exitCode, calls, leaked>>
    /\ UNCHANGED <<mergeVars, assetsVars, prVars>>

\* compress_image: the file is small enough
CompressFast ==
    /\ pc = "compress_image"
    /\ ~NeedsCompression(files["filepath"], MAX_SIZE_BYTES(script))
    /\ compressed_path' = "filepath"
    /\ pc' = "curl"
    /\ UNCHANGED <<script, ext, files, stageA, stageB, sipsCalls, warnings,
                   exitCode, calls, leaked>>
    /\ UNCHANGED <<mergeVars, assetsVars, prVars>>

\* compress_image: a GIF over the limit is uploaded as it is
CompressGif ==
    /\ pc = "compress_image"
    /\ NeedsCompression(files["filepath"], MAX_SIZE_BYTES(script))
    /\ IsGif(ext)
    /\ warnings' = Append(warnings, "gif_too_large")
    /\ compressed_path' = "filepath"
    /\ pc' = "curl"
    /\ UNCHANGED <<script, ext, files, stageA, stageB, sipsCalls,
                   exitCode, calls, leaked>>
    /\ UNCHANGED <<mergeVars, assetsVars, prVars>>

\* compress_image, step 1: tmp1 is created and sips sets the quality to 70
StageA ==
    /\ pc = "compress_image"
    /\ NeedsCompression(files["filepath"], MAX_SIZE_BYTES(script))
    /\ ~IsGif(ext)
    /\ \E r \in SipsResults, size \in OutSizes(script) :
        LET fs == AfterSips(files, "tmp1", r, size) IN
        /\ r.output # "written" => size = MAX_SIZE_BYTES(script)
        /\ stageA' = r
        /\ files' = fs
        /\ sipsCalls' = Append(sipsCalls,
                               [tool |-> "quality70", src |-> "filepath", out |-> "tmp1"])
        /\ IF SipsFailed(r, fs, "tmp1")
           THEN /\ warnings' = Append(warnings, "quality_failed")
                /\ compressed_path' = "filepath"
                /\ pc' = "curl"
           ELSE IF ~NeedsCompression(fs["tmp1"], MAX_SIZE_BYTES(script))
           THEN /\ warnings' = warnings
                /\ compressed_path' = "tmp1"
                /\ pc' = "curl"
           ELSE /\ warnings' = warnings
                /\ compressed_path' = compressed_path
                /\ pc' = "stageB"
    /\ UNCHANGED <<script, ext, stageB, exitCode, calls, leaked>>
    /\ UNCHANGED <<mergeVars, assetsVars, prVars>>

\* compress_image, step 2: tmp2 is created and sips scales tmp1 down
StageB ==
    /\ pc = "stageB"
    /\ \E r \in SipsResults, size \in OutSizes(script) :
        LET fs == AfterSips(files, "tmp2", r, size) IN
        /\ r.output # "written" => size = MAX_SIZE_BYTES(script)
        /\ stageB' = r
        /\ files' = fs
        /\ sipsCalls' = Append(sipsCalls,
                               [tool |-> "resize1920", src |-> StageBInput, out |-> "tmp2"])
        /\ IF SipsFailed(r, fs, "tmp2")
           THEN /\ warnings' = Append(warnings, "resize_failed")
                /\ compressed_path' = StageBFallback
           ELSE /\ warnings' = warnings \o FinalWarning(fs["tmp2"], MAX_SIZE_BYTES(script))
                /\ compressed_path' = "tmp2"
    /\ pc' = "curl"
    /\ UNCHANGED <<script, ext, stageA, exitCode, calls, leaked>>
    /\ UNCHANGED <<mergeVars, assetsVars, prVars>>

\* what the curl call and the parsing of its answer can come to
CurlResults == {"curl_failed", "malformed", "not_success", "success"}

\* upload_image after compress_image, and main's print of the url
Upload ==
    /\ pc = "curl"
    /\ \E r \in CurlResults :
        IF r = "success"
        THEN pc' = "done" /\ exitCode' = 0
        ELSE pc' = "failed" /\ exitCode' = 1
    /\ UNCHANGED <<script, ext, files, stageA, stageB, sipsCalls, warnings,
                   compressed_path, calls, leaked>>
    /\ UNCHANGED <<mergeVars, assetsVars, prVars>>

\* the temporary files of this call that are on disk
TempFiles == DOMAIN files \ {"filepath"}

\* the script is started again, on another image
NextCall ==
    /\ pc \in {"done", "failed"}
    /\ calls < MaxCalls
    /\ pc' = "upload_image"
    /\ calls' = calls + 1
    /\ leaked' = leaked + Cardinality(TempFiles)
    /\ ext' \in Exts
    /\ \E size \in InSizes(script) : files' = [n \in {"filepath"} |-> size]
    /\ stageA' = NotRun
    /\ stageB' = NotRun
    /\ sipsCalls' = <<>>
    /\ warnings' = <<>>
    /\ compressed_path' = ""
    /\ exitCode' = -1
    /\ UNCHANGED script
    /\ UNCHANGED <<mergeVars, assetsVars, prVars>>

NextUpload ==
    \/ UploadImageEnter
    \/ CompressFast
    \/ CompressGif
    \/ StageA
    \/ StageB
    \/ Upload
    \/ NextCall

SpecUpload == InitUpload /\ [][NextUpload]_vars

-----------------------------------------------------------------------------
(* Inputs of update_pr                                                     *)

Pieces ==
    { <<NL>>,
      <<"x", NL>>,
      <<"#", "#", " ", "Screenshots">>,
      <<"#", "#", " ", "x">> }

RECURSIVE SeqsUpTo(_, _)
SeqsUpTo(S, n) ==
    IF n = 0 THEN { <<>> }
    ELSE LET shorter == SeqsUpTo(S, n - 1) IN
         shorter \cup { Append(q, e) : q \in shorter, e \in S }

Docs == { Flatten(q) : q \in SeqsUpTo(Pieces, MaxPieces) }

EntrySet ==
    { << <<"x">>, <<"u">> >>,
      << <<"x", BS, "n">>, <<"u">> >>,
      << <<"n">>, <<"u", BS, "x">> >> }

\* main rejects an empty --entry list before update_pr runs
EntryLists == SeqsUpTo(EntrySet, MaxEntries) \ { <<>> }

InitMerge ==
    /\ pc = "fetched"
    /\ document \in Docs
    /\ entries \in EntryLists
    /\ new_section = <<>>
    /\ new_body = <<>>
    /\ round = 0
    /\ UploadIdle
    /\ AssetsIdle
    /\ PrIdle

\* update_pr computes new_body from the fetched text
UpdatePrMerge ==
    /\ pc = "fetched"
    /\ round < MaxRounds
    /\ LET m == Merge(document, entries) IN
        /\ pc' = IF m.err THEN "crashed" ELSE "merged"
        /\ new_body' = m.out
    /\ new_section' = build_screenshots_section(entries)
    /\ round' = round + 1
    /\ UNCHANGED <<document, entries>>
    /\ UNCHANGED <<uploadVars, assetsVars, prVars>>

\* the next update_pr run with the same entries fetches what was written
Refetch ==
    /\ pc = "merged"
    /\ round < MaxRounds
    /\ pc' = "fetched"
    /\ document' = new_body
    /\ UNCHANGED <<entries, new_section, new_body, round>>
    /\ UNCHANGED <<uploadVars, assetsVars, prVars>>

NextMerge == UpdatePrMerge \/ Refetch

SpecMerge == InitMerge /\ [][NextMerge]_vars

-----------------------------------------------------------------------------
(* pr_assets.py: --setup and the upload of one file                        *)

MaxRuns == 2

\* what an invocation of gh can do: be answered by the repository, fail
\* before an answer arrives (process or transport failure), or end with
\* status 0 and a stdout that is not JSON
GhOutcomes == {"answered", "fault", "malformed"}

CreateOrder == <<"blob", "tree", "commit", "ref">>

README == "README"

\* a pr-assets branch that was there before the first call
ExistingBranch ==
    << [type |-> "blob", content |-> README],
       [type |-> "tree", blob |-> 1],
       [type |-> "commit", tree |-> 2, parents |-> <<>>] >>

IsObject(sha, type) == sha \in 1..Len(objects) /\ objects[sha].type = type

\* the requests the repository accepts
Accepts(op, payload) ==
    CASE op = "blob"     -> TRUE
      [] op = "tree"     -> IsObject(payload.tree[1], "blob")
      [] op = "commit"   -> IsObject(payload.tree, "tree")
      [] op = "ref"      -> ref = 0 /\ IsObject(payload.sha, "commit")
      [] op = "contents" -> ref # 0

\* the object a request creates; a commit without a "parents" key is a root
NewObject(op, payload) ==
    CASE op = "blob"   -> [type |-> "blob", content |-> payload.content]
      [] op = "tree"   -> [type |-> "tree", blob |-> payload.tree[1]]
      [] op = "commit" -> [type |-> "commit", tree |-> payload.tree,
                           parents |-> IF "parents" \in DOMAIN payload
                                       THEN payload.parents ELSE <<>>]

\* blobs and trees are content-addressed, a commit carries its date
ShaOf(obj) ==
    LET same == { i \in 1..Len(objects) :
                    objects[i].type = obj.type /\ objects[i] = obj }
    IN  IF obj.type # "commit" /\ same # {}
        THEN CHOOSE i \in same : TRUE
        ELSE Len(objects) + 1

\* subprocess.run of `gh api` with a payload: what comes back
GhResult(outcome, op, payload) ==
    IF outcome = "fault"
    THEN [returncode |-> 1, json |-> FALSE, sha |-> 0, res |-> "fault"]
    ELSE IF ~Accepts(op, payload)
    THEN [returncode |-> 1, json |-> FALSE, sha |-> 0, res |-> "rejected"]
    ELSE [returncode |-> 0,
          json |-> outcome = "answered",
          sha |-> IF op \in {"blob", "tree", "commit"}
                  THEN ShaOf(NewObject(op, payload)) ELSE 0,
          res |-> IF outcome = "answered" THEN "ok" ELSE "malformed"]

\* what an accepted request leaves in the repository
Remote(op, payload, result) ==
    /\ objects' = IF result.returncode = 0 /\ result.sha = Len(objects) + 1
                  THEN Append(objects, NewObject(op, payload))
                  ELSE objects
    /\ ref' = IF result.returncode = 0 /\ op = "ref" THEN payload.sha ELSE ref
    /\ contents' = IF result.returncode = 0 /\ op = "contents"
                   THEN contents + 1 ELSE contents

GhApiAlwaysReturns(result) == "return"

\* _gh_api after subprocess.run: sys.exit(1), an uncaught JSONDecodeError,
\* or the parsed response
gh_api(result) ==
    IF result.returncode # 0 THEN "exit"
    ELSE IF ~result.json THEN "raise"
    ELSE "return"

\* one call of _gh_api and what the caller does with the response
GhApi(op, payload, next, printed) ==
    \E outcome \in GhOutcomes :
        LET result == GhResult(outcome, op, payload)
            does   == gh_api(result)
        IN  /\ Remote(op, payload, result)
            /\ apiLog' = Append(apiLog, [op |-> op, payload |-> payload,
                                         res |-> result.res,
                                         sha |-> result.sha])
            /\ blob_sha' = IF op = "blob" /\ does = "return"
                           THEN result.sha ELSE blob_sha
            /\ tree_sha' = IF op = "tree" /\ does = "return"
                           THEN result.sha ELSE tree_sha
            /\ commit_sha' = IF op = "commit" /\ does = "return"
                             THEN result.sha ELSE commit_sha
            /\ IF does = "return"
               THEN /\ pc' = next
                    /\ stdout' = stdout \o printed
                    /\ UNCHANGED <<stderr, status>>
               ELSE /\ pc' = "exited"
                    /\ status' = 1
                    /\ stderr' = Append(stderr,
                           IF does = "exit"
                           THEN [msg |-> "gh api failed", text |-> result.res]
                           ELSE [msg |-> "Traceback", text |-> "JSONDecodeError"])
                    /\ UNCHANGED stdout
            /\ UNCHANGED <<mode, before, runs>>
            /\ UNCHANGED <<mergeVars, uploadVars, prVars>>

InitAssets ==
    /\ pc = "idle"
    /\ mode = "none"
    /\ \/ objects = <<>> /\ ref = 0
       \/ objects = ExistingBranch /\ ref = 3
    /\ contents = 0
    /\ before = ref
    /\ blob_sha = 0
    /\ tree_sha = 0
    /\ commit_sha = 0
    /\ apiLog = <<>>
    /\ stdout = <<>>
    /\ stderr = <<>>
    /\ status = -1
    /\ runs = <<>>
    /\ MergeIdle
    /\ UploadIdle
    /\ PrIdle

\* main up to its first external call
MainEnter ==
    /\ pc = "idle"
    /\ Len(runs) < MaxRuns
    /\ \E m \in {"setup", "upload"}, exists \in BOOLEAN :
        /\ mode' = m
        /\ IF m = "upload" /\ ~exists
           THEN /\ pc' = "exited"
                /\ status' = 1
                /\ stderr' = << [msg |-> "file not found", text |-> ""] >>
           ELSE /\ pc' = "get_repo"
                /\ status' = -1
                /\ stderr' = <<>>
    /\ before' = ref
    /\ blob_sha' = 0
    /\ tree_sha' = 0
    /\ commit_sha' = 0
    /\ apiLog' = <<>>
    /\ stdout' = <<>>
    /\ UNCHANGED <<objects, ref, contents, runs>>
    /\ UNCHANGED <<mergeVars, uploadVars, prVars>>

GetRepo ==
    /\ pc = "get_repo"
    /\ \E returncode \in {0, 1} :
        /\ apiLog' = Append(apiLog,
               [op |-> "repo", payload |-> [q |-> "nameWithOwner"],
                res |-> IF returncode = 0 THEN "ok" ELSE "fault", sha |-> 0])
        /\ IF returncode # 0
           THEN /\ pc' = "exited"
                /\ status' = 1
                /\ stderr' = Append(stderr,
                       [msg |-> "could not determine current repo", text |-> ""])
           ELSE /\ pc' = "branch_exists"
                /\ UNCHANGED <<status, stderr>>
    /\ UNCHANGED <<mode, objects, ref, contents, before, blob_sha, tree_sha,
                   commit_sha, stdout, runs>>
    /\ UNCHANGED <<mergeVars, uploadVars, prVars>>

BranchExistsNever(returncode) == FALSE

branch_exists(returncode) == returncode = 0

\* the branch lookup and the branch main takes on its answer
BranchExists ==
    /\ pc = "branch_exists"
    /\ \E outcome \in {"answered", "fault"} :
        LET returncode == IF outcome = "answered" /\ ref # 0 THEN 0 ELSE 1
            found      == branch_exists(returncode)
        IN  /\ apiLog' = Append(apiLog,
                   [op |-> "branch", payload |-> [branch |-> "pr-assets"],
                    res |-> IF outcome = "fault" THEN "fault"
                            ELSE IF ref # 0 THEN "ok" ELSE "notfound",
                    sha |-> 0])
            /\ IF mode = "setup"
               THEN IF found
                    THEN /\ stdout' = Append(stdout, "already exists")
                         /\ pc' = "exited"
                         /\ status' = 0
                    ELSE /\ stdout' = Append(stdout, "Creating orphan branch")
                         /\ pc' = "blob"
                         /\ UNCHANGED status
               ELSE IF found
                    THEN /\ pc' = "upload_to_github"
                         /\ UNCHANGED <<stdout, status>>
                    ELSE /\ stdout' = stdout \o <<"not found, creating",
                                                  "Creating orphan branch">>
                         /\ pc' = "blob"
                         /\ UNCHANGED status
    /\ UNCHANGED <<mode, objects, ref, contents, before, blob_sha, tree_sha,
                   commit_sha, stderr, runs>>
    /\ UNCHANGED <<mergeVars, uploadVars, prVars>>

CreateBlob ==
    /\ pc = "blob"
    /\ GhApi("blob", [content |-> README, encoding |-> "base64"], "tree", <<>>)

CreateTree ==
    /\ pc = "tree"
    /\ GhApi("tree", [tree |-> <<blob_sha>>], "commit", <<>>)

CreateCommit ==
    /\ pc = "commit"
    /\ GhApi("commit", [message |-> "init", tree |-> tree_sha], "ref", <<>>)

\* the last step of create_pr_assets_branch and the return to main
CreateRef ==
    /\ pc = "ref"
    /\ GhApi("ref", [ref |-> "refs/heads/pr-assets", sha |-> commit_sha],
             IF mode = "setup" THEN "returned" ELSE "upload_to_github",
             <<"created successfully">>)

\* --setup returns from main after create_pr_assets_branch
SetupReturn ==
    /\ pc = "returned"
    /\ pc' = "exited"
    /\ status' = 0
    /\ UNCHANGED <<mode, objects, ref, contents, before, blob_sha, tree_sha,
                   commit_sha, apiLog, stdout, stderr, runs>>
    /\ UNCHANGED <<mergeVars, uploadVars, prVars>>

\* upload_to_github and the print of the URL
UploadToGithub ==
    /\ pc = "upload_to_github"
    /\ GhApi("contents", [branch |-> "pr-assets", content |-> "image"],
             "printed", <<"url">>)

UploadReturn ==
    /\ pc = "printed"
    /\ pc' = "exited"
    /\ status' = 0
    /\ UNCHANGED <<mode, objects, ref, contents, before, blob_sha, tree_sha,
                   commit_sha, apiLog, stdout, stderr, runs>>
    /\ UNCHANGED <<mergeVars, uploadVars, prVars>>

\* the process has ended; the next call of the script may start
MainExit ==
    /\ pc = "exited"
    /\ pc' = "idle"
    /\ runs' = Append(runs, [mode |-> mode, before |-> before, log |-> apiLog,
                             stdout |-> stdout, stderr |-> stderr,
                             status |-> status])
    /\ UNCHANGED <<mode, objects, ref, contents, before, blob_sha, tree_sha,
                   commit_sha, apiLog, stdout, stderr, status>>
    /\ UNCHANGED <<mergeVars, uploadVars, prVars>>

NextAssets ==
    \/ MainEnter
    \/ GetRepo
    \/ BranchExists
    \/ CreateBlob
    \/ CreateTree
    \/ CreateCommit
    \/ CreateRef
    \/ SetupReturn
    \/ UploadToGithub
    \/ UploadReturn
    \/ MainExit

SpecAssets == InitAssets /\ [][NextAssets]_vars

-----------------------------------------------------------------------------
(* update_pr on a pull request that other writers edit as well             *)

MaxBodyPieces == 1

MaxEdits == 1

PrBodies == { Flatten(q) : q \in SeqsUpTo(Pieces, MaxBodyPieces) }

InitUpdatePr ==
    /\ pc = "update_pr"
    /\ prBody \in PrBodies
    /\ edits = 0
    /\ overwritten = <<>>
    /\ document = <<>>
    /\ entries \in EntryLists
    /\ new_section = <<>>
    /\ new_body = <<>>
    /\ round = 0
    /\ UploadIdle
    /\ AssetsIdle

\* `gh pr view`: the description as it is now, and the newline gh prints
Fetch ==
    /\ pc = "update_pr"
    /\ \E returncode \in {0, 1} :
        /\ apiLog' = Append(apiLog,
               [op |-> "pr view", payload |-> [json |-> "body"],
                res |-> IF returncode = 0 THEN "ok" ELSE "fault", sha |-> 0])
        /\ IF returncode # 0
           THEN /\ pc' = "update_failed"
                /\ status' = 1
                /\ stderr' = Append(stderr,
                       [msg |-> "could not fetch PR", text |-> "fault"])
                /\ UNCHANGED document
           ELSE /\ pc' = "fetched"
                /\ document' = prBody \o <<NL>>
                /\ UNCHANGED <<status, stderr>>
    /\ UNCHANGED <<entries, new_section, new_body, round>>
    /\ UNCHANGED <<mode, objects, ref, contents, before, blob_sha, tree_sha,
                   commit_sha, stdout, runs>>
    /\ UNCHANGED <<uploadVars, prVars>>

\* another writer edits the description while update_pr runs
ExternalEdit ==
    /\ pc \in {"update_pr", "fetched", "merged"}
    /\ edits < MaxEdits
    /\ \E p \in Pieces : prBody' = prBody \o p
    /\ edits' = edits + 1
    /\ UNCHANGED <<pc, overwritten>>
    /\ UNCHANGED <<mergeVars, uploadVars, assetsVars>>

BodyFileFetched == document

\* the temporary file handed to `gh pr edit --body-file`
BodyFile == new_body

\* `gh pr edit`, the exit on its failure and the closing print
Write ==
    /\ pc = "merged"
    /\ \E returncode \in {0, 1} :
        /\ apiLog' = Append(apiLog,
               [op |-> "pr edit", payload |-> [body |-> BodyFile],
                res |-> IF returncode = 0 THEN "ok" ELSE "fault", sha |-> 0])
        /\ IF returncode # 0
           THEN /\ pc' = "update_failed"
                /\ status' = 1
                /\ stderr' = Append(stderr,
                       [msg |-> "gh pr edit failed", text |-> "fault"])
                /\ UNCHANGED <<prBody, overwritten, stdout>>
           ELSE /\ pc' = "updated"
                /\ status' = 0
                /\ prBody' = BodyFile
                /\ overwritten' = prBody
                /\ stdout' = Append(stdout, "description updated")
                /\ UNCHANGED stderr
    /\ UNCHANGED edits
    /\ UNCHANGED <<mode, objects, ref, contents, before, blob_sha, tree_sha,
                   commit_sha, runs>>
    /\ UNCHANGED <<mergeVars, uploadVars>>

NextUpdatePr ==
    \/ Fetch
    \/ ExternalEdit
    \/ UpdatePrMerge
    \/ Write

SpecUpdatePr == InitUpdatePr /\ [][NextUpdatePr]_vars

-----------------------------------------------------------------------------
(* The scripts together                                                    *)

Init == InitMerge \/ InitUpload \/ InitAssets \/ InitUpdatePr

Next == NextMerge \/ NextUpload \/ NextAssets \/ NextUpdatePr

Spec == Init /\ [][Next]_vars

-----------------------------------------------------------------------------
(* Properties of the section merge (SpecMerge)                             *)

\* the Screenshots section of d exists
HasSection(d) == PatternSearch(d)

Merged1 == pc = "merged" /\ round = 1

\* C1: merging the same entries into the result of a merge leaves it as it
\* is: merge(merge(d, E), E) = merge(d, E).  In round 2 `document` is the
\* result of the first merge and new_body the result of the second.
C1_Idempotent ==
    (round = 2 /\ pc \in {"merged", "crashed"}) =>
        (pc = "merged" /\ new_body = document)

\* C2 as written: without a Screenshots section in d the result is d itself,
\* a separator of at most one blank line, and the rendered section.
C2_AppendKeepsDocument ==
    (Merged1 /\ ~HasSection(document)) =>
        \E sep \in { <<>>, <<NL>>, <<NL, NL>> } :
            new_body = document \o sep \o build_screenshots_section(entries)

\* C2 amended: without a Screenshots section in d the result is d without its
\* trailing newlines, then one blank line (nothing when that text is empty),
\* then the rendered section.
C2_AppendToStripped ==
    (Merged1 /\ ~HasSection(document)) =>
        LET body == RstripNL(document) IN
        /\ new_body = body \o (IF body = <<>> THEN <<>> ELSE <<NL, NL>>)
                           \o new_section
        /\ IsPrefix(body, new_body)

C2_Witness ==
    /\ Merged1
    /\ ~HasSection(document)
    /\ EndsWith(document, <<"x", NL, NL, NL>>)

\* the number of matches of the pattern in s at or after `from`
RECURSIVE CountMatches(_, _)
CountMatches(s, from) ==
    LET i == NextMatch(s, from) IN
    IF i = 0 THEN 0 ELSE 1 + CountMatches(s, MatchEnd(s, i) + 1)

\* C3: when d = before ++ section ++ after with a single Screenshots section,
\* the result is before ++ R ++ after, R the rendered section without its
\* trailing newline, for any label and URL text.
C3_ReplaceFrame ==
    (round = 1 /\ pc \in {"merged", "crashed"} /\ CountMatches(document, 1) = 1) =>
        LET i == NextMatch(document, 1)
            e == MatchEnd(document, i)
        IN  /\ pc = "merged"
            /\ new_body = SubSeq(document, 1, i - 1)
                            \o RstripNL(build_screenshots_section(entries))
                            \o SubSeq(document, e + 1, Len(document))

\* the rendering the interface fixes: the heading line, then per entry a
\* blank line, the `### label` line and the `![label](url)` line
RECURSIVE EntryBlocks(_)
EntryBlocks(E) ==
    IF E = <<>> THEN <<>>
    ELSE <<NL, "#", "#", "#", " ">> \o E[1][1] \o <<NL>>
            \o <<"!", "[">> \o E[1][1] \o <<"]", "(">> \o E[1][2] \o <<")", NL>>
            \o EntryBlocks(Tail(E))

\* C4: the rendered section is the heading line followed by one block per
\* entry, in input order, duplicates kept, and it ends in exactly one newline.
C4_RenderShape ==
    (pc \in {"merged", "crashed"}) =>
        /\ new_section = <<"#", "#", " ", "Screenshots", NL>> \o EntryBlocks(entries)
        /\ EndsWith(new_section, <<NL>>)
        /\ ~EndsWith(new_section, <<NL, NL>>)

C4_Witness ==
    /\ pc = "merged"
    /\ Len(entries) = 2
    /\ entries[1] = entries[2]
    /\ entries[1][1] = <<"x", BS, "n">>

\* C13: in a document with two or more Screenshots headings only the region
\* of the first one is replaced: the text before it and everything after its
\* end, the later Screenshots headings and their content included, is in the
\* result as it was (trailing newlines of the document apart).
C13_OnlyFirstSectionReplaced ==
    (Merged1 /\ CountMatches(RstripNL(document), 1) >= 2) =>
        LET body == RstripNL(document)
            i    == NextMatch(body, 1)
            e    == MatchEnd(body, i)
        IN  /\ IsPrefix(SubSeq(body, 1, i - 1), new_body)
            /\ EndsWith(new_body, SubSeq(body, e + 1, Len(body)))

-----------------------------------------------------------------------------
(* Properties of compress_image and upload_image (SpecUpload)              *)

\* compress_image has returned in this call
Returned == pc \in {"curl", "done", "failed"}

Ceiling == MAX_SIZE_BYTES(script)

\* the warnings compress_image printed in this call
CompressWarnings == SelectSeq(warnings, LAMBDA w : w # "unsupported_ext")

\* the outputs of the sips runs of this call that ended with status 0 and exist
Produced ==
    { n \in TempFiles : \/ n = "tmp1" /\ stageA.ran /\ stageA.returncode = 0
                        \/ n = "tmp2" /\ stageB.ran /\ stageB.returncode = 0 }

\* C5: an image of at most the ceiling is returned as it is: no sips run, no
\* temporary file, no warning of compress_image.
C5_FastPath ==
    (Returned /\ files["filepath"] <= Ceiling) =>
        /\ compressed_path = "filepath"
        /\ sipsCalls = <<>>
        /\ TempFiles = {}
        /\ CompressWarnings = <<>>

C5_Witness ==
    /\ Returned
    /\ files["filepath"] = Ceiling
    /\ compressed_path = "filepath"

\* C6: a GIF over the ceiling is returned as it is, with one warning, and
\* neither sips run is made.
C6_GifSkipped ==
    (Returned /\ ext \in {".gif", ".GIF"} /\ files["filepath"] > Ceiling) =>
        /\ compressed_path = "filepath"
        /\ CompressWarnings = <<"gif_too_large">>
        /\ sipsCalls = <<>>
        /\ ~stageA.ran
        /\ ~stageB.ran
        /\ TempFiles = {}

C6_Witness ==
    /\ Returned
    /\ ext = ".GIF"
    /\ files["filepath"] > Ceiling
    /\ compressed_path = "filepath"

\* C7: when the first sips run fails, or ends without having written any
\* output, compress_image warns, returns the original image (never the empty
\* temporary file) and does not run the second stage.
C7_StageAFailureReturnsOriginal ==
    (Returned /\ stageA.ran /\ (stageA.returncode # 0 \/ stageA.output # "written")) =>
        /\ compressed_path = "filepath"
        /\ "quality_failed" \in { warnings[i] : i \in DOMAIN warnings }
        /\ ~stageB.ran

\* C8: when the image and the output of the first stage both exceed the
\* ceiling and the second stage succeeds, its output is returned, it was
\* computed from the output of the first stage, and compress_image warned
\* exactly once if the returned file exceeds the ceiling and not at all if not.
C8_StageBReturned ==
    (/\ Returned
     /\ files["filepath"] > Ceiling
     /\ "tmp1" \in Produced
     /\ files["tmp1"] > Ceiling
     /\ "tmp2" \in Produced) =>
        /\ compressed_path = "tmp2"
        /\ Len(sipsCalls) = 2
        /\ sipsCalls[2] = [tool |-> "resize1920", src |-> "tmp1", out |-> "tmp2"]
        /\ CompressWarnings =
              IF files["tmp2"] > Ceiling THEN <<"still_too_large">> ELSE <<>>

C8_Witness ==
    /\ Returned
    /\ compressed_path = "tmp2"
    /\ files["tmp1"] > Ceiling
    /\ files["tmp2"] > Ceiling
    /\ CompressWarnings = <<"still_too_large">>

\* the image and the outputs of this call
Assets == {"filepath"} \cup Produced

\* the output of the last sips run that ended with status 0 and left its
\* file on disk; the image itself when no run did
LastStageOutput ==
    IF "tmp2" \in Produced THEN "tmp2"
    ELSE IF "tmp1" \in Produced THEN "tmp1"
    ELSE "filepath"

\* compress_image can always take its next step
CompressGoesOn ==
    /\ pc = "compress_image" => ENABLED (CompressFast \/ CompressGif \/ StageA)
    /\ pc = "stageB" => ENABLED StageB

\* C9 as written: what compress_image returns is the image or an output of a
\* stage; it fits the ceiling whenever one of them does; otherwise it is the
\* smallest output of the call and there was a warning.
C9_SmallestAttainable ==
    Returned =>
        /\ compressed_path \in Assets
        /\ (\E a \in Assets : files[a] <= Ceiling) => files[compressed_path] <= Ceiling
        /\ (\A a \in Assets : files[a] > Ceiling) =>
              /\ \A p \in Produced : files[compressed_path] <= files[p]
              /\ CompressWarnings # <<>>

\* C9 amended: what compress_image returns is the image or an output of a
\* stage; it fits the ceiling whenever one of them does; otherwise it is the
\* output of the last stage that succeeded (the image when none did) and
\* there was a warning.
C9_LastStageOutput ==
    /\ CompressGoesOn
    /\ Returned =>
        /\ compressed_path \in Assets
        /\ (\E a \in Assets : files[a] <= Ceiling) => files[compressed_path] <= Ceiling
        /\ (\A a \in Assets : files[a] > Ceiling) =>
              /\ compressed_path = LastStageOutput
              /\ CompressWarnings # <<>>

C9_Witness ==
    /\ Returned
    /\ compressed_path = "tmp2"
    /\ files["tmp1"] > Ceiling
    /\ files["tmp2"] > files["tmp1"]
    /\ CompressWarnings # <<>>

\* C10: when an upload attempt has ended, with a url or with an error, no
\* temporary file of that call is on disk, and none of an earlier call is.
C10_TempFilesDeleted ==
    /\ pc \in {"done", "failed"} => TempFiles = {}
    /\ leaked = 0

-----------------------------------------------------------------------------
(* Properties of pr_assets.py --setup and upload (SpecAssets)              *)

RECURSIVE Ops(_)
Ops(log) == IF log = <<>> THEN <<>> ELSE <<Head(log).op>> \o Ops(Tail(log))

IsCreate(entry) == entry.op \in {"blob", "tree", "commit", "ref"}

\* the external call did not do its work: it failed, was refused by the
\* repository, or came back unreadable ("notfound" is an answer)
Failed(entry) == entry.res \in {"fault", "rejected", "malformed"}

\* every external call of the run was answered
Undisturbed(run) ==
    \A i \in 1..Len(run.log) : run.log[i].res \notin {"fault", "malformed"}

TwoSetupsBranchAbsent ==
    /\ Len(runs) >= 2
    /\ runs[1].mode = "setup"
    /\ runs[2].mode = "setup"
    /\ runs[1].before = 0
    /\ Undisturbed(runs[1])
    /\ Undisturbed(runs[2])

\* C11: when --setup runs twice in sequence on a repository without the
\* pr-assets branch and every external call is answered, the first run
\* creates the branch with one blob, tree, commit and ref call and ends with
\* status 0; the second run looks the branch up, finds it, makes no create
\* call, prints that the branch already exists and ends with status 0.
C11_SetupTwiceProvisionsOnce ==
    TwoSetupsBranchAbsent =>
        /\ Ops(runs[1].log) = <<"repo", "branch">> \o CreateOrder
        /\ \A i \in 1..Len(runs[1].log) : ~Failed(runs[1].log[i])
        /\ runs[1].status = 0
        /\ runs[2].before = runs[1].log[6].payload.sha
        /\ runs[2].before # 0
        /\ Ops(runs[2].log) = <<"repo", "branch">>
        /\ runs[2].log[2].res = "ok"
        /\ runs[2].stdout = <<"already exists">>
        /\ runs[2].stderr = <<>>
        /\ runs[2].status = 0

C11_Witness ==
    /\ TwoSetupsBranchAbsent
    /\ runs[1].stdout = <<"Creating orphan branch", "created successfully">>
    /\ runs[2].stdout = <<"already exists">>
    /\ ref = runs[2].before
    /\ ref # 0

\* C12: in an upload, an external call that fails, is refused or comes back
\* unreadable is the last external call of the invocation, which ends at
\* once with a non-zero status and a message and prints no URL; a URL is
\* printed only after a call the remote answered with success.
C12_FailureEndsUpload ==
    mode = "upload" =>
        /\ \A i \in 1..Len(apiLog) :
               Failed(apiLog[i]) =>
                   /\ i = Len(apiLog)
                   /\ status \notin {-1, 0}
                   /\ stderr # <<>>
                   /\ "url" \notin { stdout[k] : k \in 1..Len(stdout) }
        /\ "url" \in { stdout[k] : k \in 1..Len(stdout) } =>
               /\ apiLog # <<>>
               /\ apiLog[Len(apiLog)].op = "contents"
               /\ apiLog[Len(apiLog)].res = "ok"

Creates == SelectSeq(apiLog, IsCreate)

\* C14: the create calls of a bootstrap are, in this order, blob, tree,
\* commit and ref; the tree names the sha the blob call returned, the commit
\* the sha the tree call returned and no parent, the ref the sha the commit
\* call returned; a create call that does not succeed is the last external
\* call, the run ends with status 1 and (when gh reported the failure) the
\* gh api error with the remote message on stderr; the ref call is made, and
\* the branch is there, only after blob, tree and commit succeeded.
C14_BootstrapOrder ==
    /\ Len(Creates) <= Len(CreateOrder)
    /\ \A i \in 1..Len(Creates) :
        /\ Creates[i].op = CreateOrder[i]
        /\ i > 1 => Creates[i - 1].res = "ok"
        /\ Creates[i].op = "tree" =>
               Creates[i].payload.tree = <<Creates[i - 1].sha>>
        /\ Creates[i].op = "commit" =>
               /\ Creates[i].payload.tree = Creates[i - 1].sha
               /\ "parents" \notin DOMAIN Creates[i].payload
        /\ Creates[i].op = "ref" =>
               Creates[i].payload.sha = Creates[i - 1].sha
        /\ Creates[i].res # "ok" =>
               /\ i = Len(Creates)
               /\ apiLog[Len(apiLog)] = Creates[i]
               /\ pc \in {"exited", "idle"}
               /\ status = 1
               /\ Creates[i].res \in {"fault", "rejected"} =>
                      stderr = << [msg |-> "gh api failed",
                                   text |-> Creates[i].res] >>
    /\ ref # before =>
        /\ Len(Creates) = 4
        /\ \A i \in 1..3 : Creates[i].res = "ok"
        /\ ref = Creates[3].sha
        /\ IsObject(ref, "commit")
        /\ objects[ref].parents = <<>>
        /\ objects[ref].tree = Creates[2].sha
        /\ objects[objects[ref].tree].blob = Creates[1].sha

\* a bootstrap that went through, and one that stopped at its third step
C14_Witness ==
    \/ /\ pc = "exited"
       /\ status = 0
       /\ mode = "setup"
       /\ ref # before
       /\ Len(Creates) = 4
    \/ /\ pc = "exited"
       /\ status = 1
       /\ Len(Creates) = 3
       /\ Creates[3].res = "fault"
       /\ ref = 0

-----------------------------------------------------------------------------
(* Properties of update_pr under concurrent edits (SpecUpdatePr)           *)

\* the description `gh pr edit` replaced is not the one that was fetched
EditedSinceFetch == overwritten \o <<NL>> # document

\* C15: update_pr reads the description once and writes it once; when it
\* has reported success the description is the body computed from what was
\* fetched, whatever another writer made of the description in between, and
\* nothing is on stderr.
C15_LastWriterWins ==
    pc = "updated" =>
        /\ Ops(apiLog) = <<"pr view", "pr edit">>
        /\ new_body = Merge(document, entries).out
        /\ prBody = new_body
        /\ status = 0
        /\ stdout = <<"description updated">>
        /\ stderr = <<>>

\* an edit made after the fetch has been overwritten and success reported
C15_Witness ==
    /\ pc = "updated"
    /\ status = 0
    /\ edits > 0
    /\ EditedSinceFetch
    /\ prBody = Merge(document, entries).out
    /\ stderr = <<>>

====
